---- MODULE Spec2Model ----
(***************************************************************************)
(* Model of the recruitment-funnel dashboard: the funnel aggregator        *)
(* (lib/sankeyData.ts, transformEventsToSankey) and the dashboard page's   *)
(* polling refresh cycle (app/page.tsx, Dashboard).                        *)
(*                                                                         *)
(* Texts that the code inspects character by character (the closure        *)
(* classification) are sequences of one-character strings, so that         *)
(* toLowerCase() and includes() are computed, not assumed.                 *)
(***************************************************************************)
EXTENDS Integers, Sequences, FiniteSets, TLC

(***************************************************************************)
(* Bounds of the model.                                                    *)
(***************************************************************************)
\* longest people collection enumerated as an aggregator input
MaxPeople == 2
\* timer ticks of the dashboard's interval that are explored
MaxTicks == 2
\* the most fields in the body of a PATCH request
MaxFields == 3

(***************************************************************************)
(* JavaScript strings as character sequences.                              *)
(***************************************************************************)
Upper == <<"A", "B", "C", "D", "E", "F", "G", "H", "I", "J", "K", "L", "M",
           "N", "O", "P", "Q", "R", "S", "T", "U", "V", "W", "X", "Y", "Z">>
Lower == <<"a", "b", "c", "d", "e", "f", "g", "h", "i", "j", "k", "l", "m",
           "n", "o", "p", "q", "r", "s", "t", "u", "v", "w", "x", "y", "z">>

\* String.prototype.toLowerCase, one character
LowerChar(c) ==
    IF \E i \in 1..Len(Upper) : Upper[i] = c
    THEN Lower[CHOOSE i \in 1..Len(Upper) : Upper[i] = c]
    ELSE c

\* toLowerCase left out: the phrases are matched case-sensitively
toLowerCaseIdentity(s) == s

\* String.prototype.toLowerCase
toLowerCase(s) == [i \in 1..Len(s) |-> LowerChar(s[i])]

\* String.prototype.includes
includes(s, sub) ==
    \E i \in 1..(Len(s) - Len(sub) + 1) : SubSeq(s, i, i + Len(sub) - 1) = sub

\* the two literals the aggregator searches for
AFTER_CALL == <<"a", "f", "t", "e", "r", " ", "c", "a", "l", "l">>
AFTER_ONBOARD == <<"a", "f", "t", "e", "r", " ", "o", "n", "b", "o", "a", "r", "d">>

(***************************************************************************)
(* Closure-classification texts used as inputs.                            *)
(***************************************************************************)
\* "DQ - After Call"
TxtAfterCall == <<"D", "Q", " ", "-", " ", "A", "f", "t", "e", "r", " ", "C", "a", "l", "l">>
\* "WITHDREW AFTER ONBOARDING"
TxtAfterOnboarding ==
    <<"W", "I", "T", "H", "D", "R", "E", "W", " ", "A", "F", "T", "E", "R", " ",
      "O", "N", "B", "O", "A", "R", "D", "I", "N", "G">>
\* "After Onboard/after call": both phrases, the onboarding one first
TxtBoth ==
    <<"A", "f", "t", "e", "r", " ", "O", "n", "b", "o", "a", "r", "d", "/",
      "a", "f", "t", "e", "r", " ", "c", "a", "l", "l">>
\* "No aftercall": no phrase, and a near miss of "after call"
TxtOther == <<"N", "o", " ", "a", "f", "t", "e", "r", "c", "a", "l", "l">>

(***************************************************************************)
(* Person records (lib/sankeyData.ts, interface Person).  An optional or   *)
(* absent property is a field missing from the record's domain.            *)
(***************************************************************************)
RecognizedStatuses ==
    {"New", "Lead", "Scheduling Email Sent", "Call Scheduled", "Call Completed",
     "Onboarded", "Active", "Paused", "Closed"}

\* a person with a status and no closure classification
P(status) == [f \in {"Status"} |-> status]
\* a person with a status and a closure classification
PC(status, cc) == "Status" :> status @@ "Close Class" :> cc
\* a person record with no Status property at all
PNoStatus == [f \in {"Name"} |-> "x"]

has(p, field) == field \in DOMAIN p

\* JavaScript truthiness of an optional string property ('' and undefined are
\* falsy); Status is an atomic string, Close Class a character sequence
truthy(p, field) ==
    has(p, field) /\ (IF field = "Close Class" THEN p[field] # << >> ELSE p[field] # "")

\* the people a collection is built from: every recognized status, an
\* unrecognized one, a missing one, and closure texts on Closed people and on
\* one person who is not Closed
PersonKinds ==
    {P(s) : s \in RecognizedStatuses} \cup
    {P("Archived"), PNoStatus,
     PC("Closed", TxtAfterCall), PC("Closed", TxtAfterOnboarding),
     PC("Closed", TxtBoth), PC("Closed", TxtOther),
     PC("Lead", TxtAfterCall)}

(***************************************************************************)
(* FunnelEvent records (lib/sankeyData.ts, interface FunnelEvent).         *)
(***************************************************************************)
Ev(to, at) == "To Status" :> to @@ "Changed At" :> at

EventInputs == {<< >>, <<Ev("Onboarded", 1), Ev("Closed", 2)>>}

(***************************************************************************)
(* The funnel aggregator, lib/sankeyData.ts.                               *)
(***************************************************************************)
Return(v) == [kind |-> "return", value |-> v]
Throw(m) == [kind |-> "throw", message |-> m]

\* the tally with a person without a status counted as New
RECURSIVE statusCountDefaultNew(_, _, _)
statusCountDefaultNew(people, n, key) ==
    IF n = 0 THEN 0
    ELSE statusCountDefaultNew(people, n - 1, key)
         + (IF (IF truthy(people[n], "Status") THEN people[n]["Status"] ELSE "New") = key
            THEN 1 ELSE 0)

\* people.forEach(person => { if (status) statusCounts[status] = (... || 0) + 1 }):
\* the value of statusCounts[key] || 0 after the first n iterations
RECURSIVE statusCount(_, _, _)
statusCount(people, n, key) ==
    IF n = 0 THEN 0
    ELSE statusCount(people, n - 1, key)
         + (IF truthy(people[n], "Status") /\ people[n]["Status"] = key THEN 1 ELSE 0)

\* people.filter(p => p.Status === 'Closed')
isClosed(p) == has(p, "Status") /\ p["Status"] = "Closed"

\* person['Close Class'] || ''
closeClassOf(person) == IF truthy(person, "Close Class") THEN person["Close Class"] ELSE << >>

\* the two phrases tested in the other order
closeBucketOnboardFirst(person) ==
    LET closeClass == closeClassOf(person)
    IN  IF includes(toLowerCase(closeClass), AFTER_ONBOARD) THEN "afterOnboarding"
        ELSE IF includes(toLowerCase(closeClass), AFTER_CALL) THEN "afterCall"
        ELSE "none"

\* which counter the forEach over closedPeople increments for one person
closeBucket(person) ==
    LET closeClass == closeClassOf(person)
    IN  IF includes(toLowerCase(closeClass), AFTER_CALL) THEN "afterCall"
        ELSE IF includes(toLowerCase(closeClass), AFTER_ONBOARD) THEN "afterOnboarding"
        ELSE "none"

\* closedPeople.forEach(...): the value of the counter named by bucket
\* (closedAfterCall or closedAfterOnboarding) after the first n iterations
RECURSIVE closedTally(_, _, _)
closedTally(closedPeople, n, bucket) ==
    IF n = 0 THEN 0
    ELSE closedTally(closedPeople, n - 1, bucket)
         + (IF closeBucket(closedPeople[n]) = bucket THEN 1 ELSE 0)

\* the counts transformLiveDataToSankey reads off the people collection
Counts(people) ==
    LET closedPeople == SelectSeq(people, isClosed)
    IN  [unassessedCount |-> statusCount(people, Len(people), "New"),
         leadCount |-> statusCount(people, Len(people), "Lead"),
         schedulingCount |-> statusCount(people, Len(people), "Scheduling Email Sent"),
         callScheduledCount |-> statusCount(people, Len(people), "Call Scheduled"),
         callCompletedCount |-> statusCount(people, Len(people), "Call Completed"),
         onboardedCount |-> statusCount(people, Len(people), "Onboarded"),
         activeCount |-> statusCount(people, Len(people), "Active"),
         pausedCount |-> statusCount(people, Len(people), "Paused"),
         closedCount |-> statusCount(people, Len(people), "Closed"),
         closedAfterCall |-> closedTally(closedPeople, Len(closedPeople), "afterCall"),
         closedAfterOnboarding |->
             closedTally(closedPeople, Len(closedPeople), "afterOnboarding")]

closedInitially(c) == c.closedCount - c.closedAfterCall - c.closedAfterOnboarding

\* totalQualified without the people closed after onboarding
totalQualifiedNoOnboardingClosures(c) ==
    c.leadCount + c.schedulingCount + c.callScheduledCount + c.callCompletedCount
    + c.onboardedCount + c.activeCount + c.pausedCount + c.closedAfterCall

\* totalQualified without the Active people
totalQualifiedNoActive(c) ==
    c.leadCount + c.schedulingCount + c.callScheduledCount + c.callCompletedCount
    + c.onboardedCount + c.pausedCount + c.closedAfterCall + c.closedAfterOnboarding

totalQualified(c) ==
    c.leadCount + c.schedulingCount + c.callScheduledCount + c.callCompletedCount
    + c.onboardedCount + c.activeCount + c.pausedCount
    + c.closedAfterCall + c.closedAfterOnboarding

completedCalls(c) ==
    c.callCompletedCount + c.onboardedCount + c.activeCount + c.pausedCount
    + c.closedAfterCall + c.closedAfterOnboarding

flowToOnboarded(c) == c.onboardedCount + c.activeCount

flowToClosedFromCall(c) == c.closedAfterCall + c.closedAfterOnboarding

\* the local constants of transformLiveDataToSankey when it builds the links
Locals(people) ==
    LET c == Counts(people)
    IN  [unassessedCount |-> c.unassessedCount,
         closedCount |-> c.closedCount,
         closedAfterCall |-> c.closedAfterCall,
         closedAfterOnboarding |-> c.closedAfterOnboarding,
         closedInitially |-> closedInitially(c),
         totalQualified |-> totalQualified(c),
         waitingOnReply |-> c.schedulingCount,
         callUpcoming |-> c.callScheduledCount,
         completedCalls |-> completedCalls(c),
         flowToOnboarded |-> flowToOnboarded(c),
         flowToPaused |-> c.pausedCount,
         flowToClosedFromCall |-> flowToClosedFromCall(c)]

Node(name, category) == [name |-> name, category |-> category]
Link(source, target, value) == [source |-> source, target |-> target, value |-> value]

nodes ==
    << Node("Applications", "active"), Node("Unassessed", "paused"),
       Node("Closed/Rejected", "closed"), Node("Qualified", "active"),
       Node("Waiting on Reply", "paused"), Node("Call Upcoming", "active"),
       Node("Call Completed", "active"), Node("Onboarded", "active"),
       Node("Paused", "paused") >>

\* the links array with the closures routed out of Onboarded
linksOnboardedToClosed(l) ==
    << Link("Applications", "Unassessed", l.unassessedCount),
       Link("Applications", "Qualified", l.totalQualified),
       Link("Applications", "Closed/Rejected", l.closedInitially),
       Link("Qualified", "Waiting on Reply", l.waitingOnReply),
       Link("Qualified", "Call Upcoming", l.callUpcoming),
       Link("Qualified", "Call Completed", l.completedCalls),
       Link("Call Completed", "Onboarded", l.flowToOnboarded),
       Link("Call Completed", "Paused", l.flowToPaused),
       Link("Onboarded", "Closed/Rejected", l.flowToClosedFromCall) >>

\* the links array before the filter
links(l) ==
    << Link("Applications", "Unassessed", l.unassessedCount),
       Link("Applications", "Qualified", l.totalQualified),
       Link("Applications", "Closed/Rejected", l.closedInitially),
       Link("Qualified", "Waiting on Reply", l.waitingOnReply),
       Link("Qualified", "Call Upcoming", l.callUpcoming),
       Link("Qualified", "Call Completed", l.completedCalls),
       Link("Call Completed", "Onboarded", l.flowToOnboarded),
       Link("Call Completed", "Paused", l.flowToPaused),
       Link("Call Completed", "Closed/Rejected", l.flowToClosedFromCall) >>

\* a filter that keeps the zero-weight links
keepLinkNonNegative(l) == l.value >= 0

\* links.filter(l => l.value > 0)
keepLink(l) == l.value > 0

transformLiveDataToSankey(people) ==
    [nodes |-> nodes, links |-> SelectSeq(links(Locals(people)), keepLink)]

\* the guard without its length test: an empty collection is aggregated
transformEventsToSankeyNoLengthCheck(args) ==
    IF Len(args) < 2
    THEN Throw("No data available from Airtable")
    ELSE Return(transformLiveDataToSankey(args[2]))

\* the events' destination statuses tallied with the people's
transformEventsToSankeyFromEvents(args) ==
    IF Len(args) < 2 \/ Len(args[2]) = 0
    THEN Throw("No data available from Airtable")
    ELSE Return(transformLiveDataToSankey(
             args[2] \o [i \in 1..Len(args[1]) |-> P(args[1][i]["To Status"])]))

\* The call's argument list is <<events>> or <<events, people>>: the second
\* parameter is optional.
transformEventsToSankey(args) ==
    IF Len(args) < 2 \/ Len(args[2]) = 0
    THEN Throw("No data available from Airtable")
    ELSE Return(transformLiveDataToSankey(args[2]))

(***************************************************************************)
(* State.                                                                  *)
(*   args, result, locals: one invocation of transformEventsToSankey, its  *)
(*     argument list, what it returned or threw, and the local constants   *)
(*     it computed on the way; prev: the invocation before it, if any;     *)
(*   people .. lastUpdated: the Dashboard component's useState cells;      *)
(*   phase, interval, cycles, completed, now: the component's effect, its  *)
(*     timer, the load() invocations it has started and how each ended,    *)
(*     the one that finished last, the clock;                              *)
(*   lastGood: what the most recent load() that ran to the end of its try  *)
(*     block was given and built (a history of the run, not a cell);       *)
(*   env, upstream, request, response: one request to a route of the       *)
(*     server, the environment variables and the store's answer it meets;  *)
(*   body, loop: the JSON body of a PATCH request and the position of the  *)
(*     handler's loop over its fields; store: the person record the store  *)
(*     holds and the calls the request has made to the store; served: the  *)
(*     requests answered before this one;                                  *)
(*   clock, rendered: the time of a render of the dashboard and the        *)
(*     figures that render computed.                                       *)
(***************************************************************************)
VARIABLES args, result, locals, prev,
          people, events, sankeyData, loading, error, lastUpdated,
          phase, interval, cycles, completed, now, lastGood,
          env, upstream, request, response, body, loop, store, served,
          clock, rendered

graphVars == <<args, result, locals, prev>>
dashVars == <<people, events, sankeyData, loading, error, lastUpdated,
              phase, interval, cycles, completed, now, lastGood>>
apiVars == <<env, upstream, request, response, body, loop, store, served>>
metricVars == <<clock, rendered>>
vars == <<args, result, locals, prev, people, events, sankeyData, loading, error,
          lastUpdated, phase, interval, cycles, completed, now, lastGood,
          env, upstream, request, response, body, loop, store, served,
          clock, rendered>>

\* an optional value: null/undefined is the empty sequence
None == << >>
Some(v) == <<v>>

Pending == [kind |-> "pending"]

(***************************************************************************)
(* Inputs of the aggregator.                                               *)
(***************************************************************************)
BoundedSeq(S, n) == UNION {[1..k -> S] : k \in 0..n}

RECURSIVE Repeat(_, _)
Repeat(x, n) == IF n = 0 THEN << >> ELSE <<x>> \o Repeat(x, n - 1)

\* the spec's scenario: {New:20, Lead:10, Onboarded:15, Closed:55}, ten of the
\* Closed marked "... After Call"
ScenarioPeople ==
    Repeat(P("New"), 20) \o Repeat(PC("Closed", TxtAfterCall), 10)
    \o Repeat(P("Lead"), 10) \o Repeat(P("Closed"), 40)
    \o Repeat(P("Onboarded"), 15) \o Repeat(PC("Closed", TxtOther), 5)

\* one person of every status, and Closed people of every closure text
EveryKind ==
    << P("New"), P("Lead"), PC("Closed", TxtAfterOnboarding), P("Scheduling Email Sent"),
       P("Call Scheduled"), P("Archived"), P("Call Completed"), PC("Closed", TxtBoth),
       P("Onboarded"), PNoStatus, P("Active"), P("Paused"), P("Closed"),
       PC("Closed", TxtAfterCall), PC("Lead", TxtAfterCall), PC("Closed", TxtOther) >>

PeopleInputs == BoundedSeq(PersonKinds, MaxPeople) \cup {ScenarioPeople, EveryKind}

ArgLists ==
    {<<ev>> : ev \in EventInputs} \cup
    {<<ev, p>> : ev \in EventInputs, p \in PeopleInputs}

\* the i-th and (i+1)-th element exchanged
Swap(s, i) ==
    [k \in 1..Len(s) |-> IF k = i THEN s[i + 1] ELSE IF k = i + 1 THEN s[i] ELSE s[k]]

(***************************************************************************)
(* The aggregator as a state machine: a call, and a second call with the   *)
(* same people in another order and another events collection.             *)
(***************************************************************************)
\* locals of the invocation: none when it threw before computing any
LocalsOf(a) == IF Len(a) < 2 \/ Len(a[2]) = 0 THEN None ELSE Some(Locals(a[2]))

Call ==
    /\ result = Pending
    /\ result' = transformEventsToSankey(args)
    /\ locals' = LocalsOf(args)
    /\ UNCHANGED <<args, prev>>
    /\ UNCHANGED <<dashVars, apiVars, metricVars>>

CallAgain ==
    /\ result # Pending
    /\ Len(args) = 2
    /\ Len(args[2]) <= MaxPeople
    /\ \E ev \in EventInputs :
       \E a \in {<<ev, args[2]>>} \cup {<<ev, Swap(args[2], i)>> : i \in 1..(Len(args[2]) - 1)} :
          /\ a # args
          /\ args' = a
          /\ result' = transformEventsToSankey(a)
          /\ locals' = LocalsOf(a)
    /\ prev' = Some([args |-> args, result |-> result])
    /\ UNCHANGED <<dashVars, apiVars, metricVars>>

\* process.env: the names that are set
EnvNames == {"AIRTABLE_ACCESS_TOKEN", "AIRTABLE_BASE_ID", "AIRTABLE_TABLE_NAME"}

\* the server with its environment set and no request received
\* the person record the store holds before any request
StoredPerson == [Status |-> "New"]

\* the loop of the PATCH handler before it is entered
LoopIdle == [pc |-> "idle", k |-> 0, result |-> << >>, thrown |-> << >>]

ApiIdle ==
    /\ env = EnvNames
    /\ upstream = Return(<< >>)
    /\ request = None
    /\ response = None
    /\ body = << >>
    /\ loop = LoopIdle
    /\ store = [fields |-> StoredPerson, calls |-> << >>]
    /\ served = << >>

\* no render of the dashboard's figures
MetricsIdle ==
    /\ clock = 0
    /\ rendered = << >>

DashInit ==
    /\ people = << >>
    /\ events = << >>
    /\ sankeyData = None
    /\ loading = TRUE
    /\ error = None
    /\ lastUpdated = 0
    /\ phase = "constructed"
    /\ interval = FALSE
    /\ cycles = [c \in 1..(MaxTicks + 1) |-> "idle"]
    /\ completed = [id |-> 0]
    /\ now = 0
    /\ lastGood = None

InitGraph ==
    /\ args \in ArgLists
    /\ result = Pending
    /\ locals = None
    /\ prev = None
    /\ DashInit
    /\ ApiIdle
    /\ MetricsIdle

NextGraph == Call \/ CallAgain

SpecGraph == InitGraph /\ [][NextGraph]_vars

(***************************************************************************)
(* The API routes and the browser's fetch.                                 *)
(***************************************************************************)
\* what the dashboard's refreshes can find upstream
SnapshotA == << P("New"), P("Lead"), PC("Closed", TxtAfterCall) >>
SnapshotB == << P("Onboarded"), P("Closed"), P("Lead"), P("Active") >>
StorePeople == {<< >>, SnapshotA, SnapshotB}
StoreEvents == EventInputs

\* a thrown value that is not an Error instance (the store client's own error
\* objects, a string, ...); Throw(m) is an Error with that message
ThrowNonError(m) == [kind |-> "throwNonError", message |-> m]

\* a record as the store client hands it over
Rec(id, fields) == [id |-> id, fields |-> fields]
RecId(i) == <<"rec", i>>
toRecords(fs) == [i \in 1..Len(fs) |-> Rec(RecId(i), fs[i])]

\* a getBase that hands the base identifier to the client unchecked
getBaseNoBaseIdCheck(e) ==
    IF "AIRTABLE_ACCESS_TOKEN" \notin e THEN Throw("AIRTABLE_ACCESS_TOKEN is not set")
    ELSE Return("base")

getBase(e) ==
    IF "AIRTABLE_ACCESS_TOKEN" \notin e THEN Throw("AIRTABLE_ACCESS_TOKEN is not set")
    ELSE IF "AIRTABLE_BASE_ID" \notin e THEN Throw("AIRTABLE_BASE_ID is not set")
    ELSE Return("base")

getPeopleTable(e) ==
    IF "AIRTABLE_TABLE_NAME" \notin e THEN Throw("AIRTABLE_TABLE_NAME is not set")
    ELSE getBase(e)

getFunnelEventsTable(e) == getBase(e)

\* records.map(record => ({ id: record.id, ...record.fields }))
mapRecords(records) ==
    [i \in 1..Len(records) |-> records[i].fields @@ [id |-> records[i].id]]

\* getAllPeople(): all is what select().all() settles with once it is called
getAllPeople(e, all) ==
    LET table == getPeopleTable(e)
    IN  IF table.kind # "return" THEN table
        ELSE IF all.kind # "return" THEN all
        ELSE Return(mapRecords(all.value))

getAllFunnelEvents(e, all) ==
    LET table == getFunnelEventsTable(e)
    IN  IF table.kind # "return" THEN table
        ELSE IF all.kind # "return" THEN all
        ELSE Return(mapRecords(all.value))

\* the catch block that reads .message off whatever was thrown
ResponseMessageOfAnything(outcome) ==
    IF outcome.kind = "return"
    THEN [ok |-> TRUE, status |-> 200, body |-> [json |-> "array", items |-> outcome.value]]
    ELSE [ok |-> FALSE, status |-> 500, body |-> [json |-> "object", error |-> outcome.message]]

\* NextResponse.json(records) / NextResponse.json({ error: message }, { status: 500 })
\* with message = error instanceof Error ? error.message : 'Unknown error'
Response(outcome) ==
    IF outcome.kind = "return"
    THEN [ok |-> TRUE, status |-> 200, body |-> [json |-> "array", items |-> outcome.value]]
    ELSE [ok |-> FALSE, status |-> 500,
          body |-> [json |-> "object",
                    error |-> IF outcome.kind = "throw" THEN outcome.message
                              ELSE "Unknown error"]]

\* GET /api/people
GET_people(outcome) == Response(outcome)
\* GET /api/funnel-events
GET_funnel_events(outcome) == Response(outcome)

\* what select().all() can settle with when the dashboard's requests arrive:
\* the records, an error object of the store client (no Error instance), or an
\* Error of the network layer under it
PeopleAll == {Return(toRecords(ps)) : ps \in StorePeople} \cup {ThrowNonError("NOT_FOUND")}
EventsAll ==
    {Return(toRecords(es)) : es \in StoreEvents}
    \cup {Throw("getaddrinfo ENOTFOUND api.airtable.com")}

\* getAllPeople() / getAllFunnelEvents() as the dashboard's requests meet them:
\* the server runs with its environment set, or without its access token
PeopleUpstream ==
    {getAllPeople(e, a) : e \in {EnvNames, EnvNames \ {"AIRTABLE_ACCESS_TOKEN"}}, a \in PeopleAll}
EventsUpstream == {getAllFunnelEvents(EnvNames, a) : a \in EventsAll}

\* a fetch() promise: fulfilled with a response, or rejected (no response at all)
Fulfilled(r) == [settled |-> "fulfilled", response |-> r]
Rejected(m) == [settled |-> "rejected", message |-> m]

PeopleFetch == {Fulfilled(GET_people(o)) : o \in PeopleUpstream} \cup {Rejected("Failed to fetch")}
EventsFetch ==
    {Fulfilled(GET_funnel_events(o)) : o \in EventsUpstream} \cup {Rejected("Failed to fetch")}

(***************************************************************************)
(* Requests to the routes of the server: GET /api/people,                  *)
(* GET /api/funnel-events, PATCH /api/people/{id}; a request and one       *)
(* later request, between which the environment may have been changed.     *)
(***************************************************************************)
StoreKinds == {P("New"), PC("Closed", TxtAfterCall), PNoStatus}

Routes == {"people", "funnel-events", "patch"}

\* what select().all() can settle with, per route: every record, or a failure
\* (an Error, or a value that is no Error); a PATCH request selects nothing
AllOutcomes(route) ==
    IF route = "patch" THEN {Return(<< >>)}
    ELSE (IF route = "people"
          THEN {Return(toRecords(ps)) : ps \in BoundedSeq(StoreKinds, MaxPeople)}
          ELSE {Return(toRecords(es)) : es \in StoreEvents})
         \cup {Throw("getaddrinfo ENOTFOUND api.airtable.com"), ThrowNonError("NOT_FOUND")}

\* what update() can settle with: the updated record, or a failure
UpdateOutcomes ==
    {Return("updated"), Throw("getaddrinfo ENOTFOUND api.airtable.com"),
     ThrowNonError("NOT_FOUND")}

\* the JSON body of a PATCH request: name/value pairs as they are written in
\* the text, no name twice
FieldNames == {"Status", "Notes", "10", "2"}
FieldValues(n) ==
    IF n = "Status" THEN {"Lead", "Closed"} ELSE IF n = "Notes" THEN {"called"} ELSE {"x"}
Pairs == UNION {{<<n, v>> : v \in FieldValues(n)} : n \in FieldNames}
Bodies ==
    {b \in BoundedSeq(Pairs, MaxFields) :
        \A i, j \in 1..Len(b) : b[i][1] = b[j][1] => i = j}
BodiesOf(route) == IF route = "patch" THEN Bodies ELSE {<< >>}

\* the array index a property name is, when it is the canonical text of one
\* (names of this model only); -1 otherwise
ArrayIndex(name) == CASE name = "2" -> 2 [] name = "10" -> 10 [] OTHER -> -1

\* Object.entries that enumerates the properties as the text wrote them
entriesAsWritten(b) == b

\* Object.entries(await request.json()): an object's own properties are
\* enumerated array indices first, in ascending numeric order, then the other
\* names in the order they were created, which is the order of the text
entries(b) ==
    LET n == Len(b)
        before(i, j) ==
            LET x == ArrayIndex(b[i][1])
                y == ArrayIndex(b[j][1])
            IN  IF x >= 0 /\ y >= 0 THEN x < y
                ELSE IF x >= 0 THEN TRUE
                ELSE IF y >= 0 THEN FALSE
                ELSE i < j
        rank(i) == Cardinality({j \in 1..n : j # i /\ before(j, i)}) + 1
    IN  [r \in 1..n |-> b[CHOOSE i \in 1..n : rank(i) = r]]

\* the record id of the request's path
PersonId == RecId(1)

\* { id: record.id, ...record.fields } of updatePersonField
personOf(fields) == fields @@ [id |-> PersonId]

\* a call to the store as the log keeps it
StoreCall(op, field, value, state) ==
    [op |-> op, field |-> field, value |-> value, state |-> state]

LoopAt(route) == IF route = "patch" THEN [LoopIdle EXCEPT !.pc = "looping"] ELSE LoopIdle

InitApi ==
    /\ env \in SUBSET EnvNames
    /\ request \in {Some(r) : r \in Routes}
    /\ upstream \in AllOutcomes(request[1])
    /\ body \in BodiesOf(request[1])
    /\ loop = LoopAt(request[1])
    /\ store = [fields |-> StoredPerson, calls |-> << >>]
    /\ served = << >>
    /\ response = None
    /\ args = << << >> >>
    /\ result = Pending
    /\ locals = None
    /\ prev = None
    /\ DashInit
    /\ MetricsIdle

\* the store's log after a select().all() of a table the environment names
selected(table, all, st) ==
    IF table.kind # "return" THEN st
    ELSE [st EXCEPT !.calls = Append(@, StoreCall("select", "", "",
                                     IF all.kind = "return" THEN "ok" ELSE "failed"))]

\* export async function GET() of app/api/people/route.ts
HandlePeople ==
    /\ request = Some("people")
    /\ response = None
    /\ response' = Some(GET_people(getAllPeople(env, upstream)))
    /\ store' = selected(getPeopleTable(env), upstream, store)
    /\ UNCHANGED <<env, upstream, request, body, loop, served>>
    /\ UNCHANGED <<graphVars, dashVars, metricVars>>

\* export async function GET() of app/api/funnel-events/route.ts
HandleFunnelEvents ==
    /\ request = Some("funnel-events")
    /\ response = None
    /\ response' = Some(GET_funnel_events(getAllFunnelEvents(env, upstream)))
    /\ store' = selected(getFunnelEventsTable(env), upstream, store)
    /\ UNCHANGED <<env, upstream, request, body, loop, served>>
    /\ UNCHANGED <<graphVars, dashVars, metricVars>>

\* updatePersonField(id, fieldName, value) is called for the next entry:
\* getPeopleTable() throws, or update() is sent to the store and awaited
PatchIssue ==
    /\ request = Some("patch")
    /\ response = None
    /\ loop.pc = "looping"
    /\ loop.k < Len(entries(body))
    /\ LET table == getPeopleTable(env)
           e == entries(body)[loop.k + 1]
       IN  IF table.kind # "return"
           THEN /\ loop' = [loop EXCEPT !.pc = "thrown", !.thrown = Some(table)]
                /\ store' = store
           ELSE /\ loop' = [loop EXCEPT !.pc = "awaiting"]
                /\ store' = [store EXCEPT
                               !.calls = Append(@, StoreCall("update", e[1], e[2], "pending"))]
    /\ UNCHANGED <<env, upstream, request, response, body, served>>
    /\ UNCHANGED <<graphVars, dashVars, metricVars>>

\* an update whose failure makes the store give up what the request wrote
PatchSettleRollback ==
    /\ request = Some("patch")
    /\ loop.pc = "awaiting"
    /\ \E o \in UpdateOutcomes :
          LET c == Len(store.calls)
              call == store.calls[c]
              written == (call.field :> call.value) @@ store.fields
          IN  IF o.kind = "return"
              THEN /\ store' = [fields |-> written,
                                calls |-> [store.calls EXCEPT ![c].state = "ok"]]
                   /\ loop' = [loop EXCEPT !.pc = "looping", !.k = @ + 1,
                                           !.result = Some(personOf(written))]
              ELSE /\ store' = [fields |-> StoredPerson,
                                calls |-> [store.calls EXCEPT ![c].state = "failed"]]
                   /\ loop' = [loop EXCEPT !.pc = "thrown", !.thrown = Some(o)]
    /\ UNCHANGED <<env, upstream, request, response, body, served>>
    /\ UNCHANGED <<graphVars, dashVars, metricVars>>

\* the awaited update() settles: the store has written the field and returns
\* the record, or it has written nothing and the call throws
PatchSettle ==
    /\ request = Some("patch")
    /\ loop.pc = "awaiting"
    /\ \E o \in UpdateOutcomes :
          LET c == Len(store.calls)
              call == store.calls[c]
              written == (call.field :> call.value) @@ store.fields
          IN  IF o.kind = "return"
              THEN /\ store' = [fields |-> written,
                                calls |-> [store.calls EXCEPT ![c].state = "ok"]]
                   /\ loop' = [loop EXCEPT !.pc = "looping", !.k = @ + 1,
                                           !.result = Some(personOf(written))]
              ELSE /\ store' = [store EXCEPT !.calls[c].state = "failed"]
                   /\ loop' = [loop EXCEPT !.pc = "thrown", !.thrown = Some(o)]
    /\ UNCHANGED <<env, upstream, request, response, body, served>>
    /\ UNCHANGED <<graphVars, dashVars, metricVars>>

\* NextResponse.json(result): the Person of the last update, or null when the
\* body had no field
PatchOk(res) ==
    [ok |-> TRUE, status |-> 200,
     body |-> [json |-> IF res = None THEN "null" ELSE "object", person |-> res]]

\* the loop is over, or something was thrown: the handler answers
PatchRespond ==
    /\ request = Some("patch")
    /\ response = None
    /\ \/ loop.pc = "looping" /\ loop.k = Len(entries(body))
       \/ loop.pc = "thrown"
    /\ response' = Some(IF loop.pc = "thrown" THEN Response(loop.thrown[1])
                        ELSE PatchOk(loop.result))
    /\ loop' = [loop EXCEPT !.pc = "done"]
    /\ UNCHANGED <<env, upstream, request, body, store, served>>
    /\ UNCHANGED <<graphVars, dashVars, metricVars>>

\* what is kept of an answered request
Served(route, r) ==
    [route |-> route, status |-> r.status, error |-> IF r.ok THEN "" ELSE r.body.error]

\* a later request arrives, the environment set as it then is; the store keeps
\* what it holds
NextRequest ==
    /\ response # None
    /\ served = << >>
    /\ served' = <<Served(request[1], response[1])>>
    /\ env' \in SUBSET EnvNames
    /\ request' \in {Some(r) : r \in Routes}
    /\ upstream' \in AllOutcomes(request'[1])
    /\ body' \in BodiesOf(request'[1])
    /\ loop' = LoopAt(request'[1])
    /\ store' = [store EXCEPT !.calls = << >>]
    /\ response' = None
    /\ UNCHANGED <<graphVars, dashVars, metricVars>>

NextApi ==
    \/ HandlePeople
    \/ HandleFunnelEvents
    \/ PatchIssue
    \/ PatchSettle
    \/ PatchRespond
    \/ NextRequest

SpecApi == InitApi /\ [][NextApi]_vars

(***************************************************************************)
(* The Dashboard component, app/page.tsx.                                  *)
(***************************************************************************)
\* the useState cells as one record
Cells ==
    [people |-> people, events |-> events, sankeyData |-> sankeyData,
     lastUpdated |-> lastUpdated, error |-> error, loading |-> loading]

\* a catch block that reports the error and leaves loading as it is
catchBlockKeepsLoading(st, message) ==
    [st EXCEPT !.error = Some(IF message # "" THEN message
                              ELSE "Failed to load data from Airtable")]

\* catch (error) { setError(error.message || '...'); setLoading(false); }
catchBlock(st, message) ==
    [st EXCEPT !.error = Some(IF message # "" THEN message
                              ELSE "Failed to load data from Airtable"),
               !.loading = FALSE]

\* peopleData.error / eventsData.error, truthy
hasError(data) == data.json = "object" /\ data.error # ""

\* the try block that builds the graph on the first success only and keeps it
\* afterwards
commitStaleGraph(peopleData, eventsData, st, t) ==
    LET st1 == [st EXCEPT !.people = peopleData.items, !.events = eventsData.items]
    IN  IF Len(peopleData.items) = 0
        THEN [st1 EXCEPT !.error = Some("No data available from Airtable"), !.loading = FALSE]
        ELSE [st1 EXCEPT !.sankeyData =
                             IF @ = None
                             THEN Some(transformLiveDataToSankey(peopleData.items)) ELSE @,
                         !.lastUpdated = t, !.error = None, !.loading = FALSE]

\* setPeople .. setLoading(false) of the try block; transformEventsToSankey may
\* throw after the first two setters have been called
commit(peopleData, eventsData, st, t) ==
    LET st1 == [st EXCEPT !.people = peopleData.items, !.events = eventsData.items]
        g == transformEventsToSankey(<<eventsData.items, peopleData.items>>)
    IN  IF g.kind = "throw"
        THEN catchBlock(st1, g.message)
        ELSE [st1 EXCEPT !.sankeyData = Some(g.value), !.lastUpdated = t,
                         !.error = None, !.loading = FALSE]

\* the try block that shows whichever collection did arrive before it reports
\* the failure of the other
tryBlockPartial(peopleRes, eventsRes, st, t) ==
    IF ~peopleRes.ok \/ ~eventsRes.ok
    THEN catchBlock(
             [st EXCEPT !.people = IF peopleRes.ok THEN peopleRes.body.items ELSE @,
                        !.events = IF eventsRes.ok THEN eventsRes.body.items ELSE @],
             "Failed to fetch data from Airtable")
    ELSE commit(peopleRes.body, eventsRes.body, st, t)

\* the try block once Promise.all has fulfilled with both responses
tryBlock(peopleRes, eventsRes, st, t) ==
    IF ~peopleRes.ok \/ ~eventsRes.ok
    THEN catchBlock(st, "Failed to fetch data from Airtable")
    ELSE LET peopleData == peopleRes.body
             eventsData == eventsRes.body
         IN  IF hasError(peopleData) \/ hasError(eventsData)
             THEN catchBlock(st, IF hasError(peopleData) THEN peopleData.error
                                 ELSE eventsData.error)
             ELSE commit(peopleData, eventsData, st, t)

\* load(): Promise.all rejects when either fetch does
load(peopleFetch, eventsFetch, st, t) ==
    IF peopleFetch.settled = "rejected" THEN catchBlock(st, peopleFetch.message)
    ELSE IF eventsFetch.settled = "rejected" THEN catchBlock(st, eventsFetch.message)
    ELSE tryBlock(peopleFetch.response, eventsFetch.response, st, t)

\* a render that prefers the data it holds over the error
viewStaleData ==
    IF loading THEN "loading"
    ELSE IF error # None /\ error[1] # "" /\ sankeyData = None THEN "error"
    ELSE "dashboard"

\* what the component renders
view ==
    IF loading THEN "loading"
    ELSE IF error # None /\ error[1] # "" THEN "error"
    ELSE "dashboard"

\* an effect that calls load() twice before it sets the interval
MountEffectTwice ==
    /\ phase = "constructed"
    /\ phase' = "mounted"
    /\ interval' = TRUE
    /\ cycles' = [cycles EXCEPT ![1] = "fetching", ![2] = "fetching"]
    /\ UNCHANGED <<people, events, sankeyData, loading, error, lastUpdated, completed, now,
                   lastGood>>
    /\ UNCHANGED <<graphVars, apiVars, metricVars>>

\* useEffect(() => { load(); const interval = setInterval(load, 30000); ... }, [])
MountEffect ==
    /\ phase = "constructed"
    /\ phase' = "mounted"
    /\ interval' = TRUE
    /\ cycles' = [cycles EXCEPT ![1] = "fetching"]
    /\ UNCHANGED <<people, events, sankeyData, loading, error, lastUpdated, completed, now,
                   lastGood>>
    /\ UNCHANGED <<graphVars, apiVars, metricVars>>

\* an interval that stops calling load() once an error is held
TimerTickStopsOnError ==
    /\ interval
    /\ error = None
    /\ now < MaxTicks
    /\ now' = now + 1
    /\ cycles' = [cycles EXCEPT ![now + 2] = "fetching"]
    /\ UNCHANGED <<people, events, sankeyData, loading, error, lastUpdated, phase, interval,
                   completed, lastGood>>
    /\ UNCHANGED <<graphVars, apiVars, metricVars>>

\* the interval fires: load() is called again, whatever the earlier calls' state
TimerTick ==
    /\ interval
    /\ now < MaxTicks
    /\ now' = now + 1
    /\ cycles' = [cycles EXCEPT ![now + 2] = "fetching"]
    /\ UNCHANGED <<people, events, sankeyData, loading, error, lastUpdated, phase, interval,
                   completed, lastGood>>
    /\ UNCHANGED <<graphVars, apiVars, metricVars>>

\* a load() that drops its result when an invocation started after it has
\* already ended
LoadSettlesIgnoreStale(c) ==
    /\ cycles[c] = "fetching"
    /\ \E peopleFetch \in PeopleFetch, eventsFetch \in EventsFetch :
       \E st \in {IF \E d \in DOMAIN cycles : d > c /\ cycles[d] \in {"ready", "error"}
                  THEN Cells
                  ELSE load(peopleFetch, eventsFetch, Cells, now)} :
          LET ran == IF load(peopleFetch, eventsFetch, Cells, now).error = None
                     THEN "ready" ELSE "error"
          IN  /\ people' = st.people
              /\ events' = st.events
              /\ sankeyData' = st.sankeyData
              /\ lastUpdated' = st.lastUpdated
              /\ error' = st.error
              /\ loading' = st.loading
              /\ completed' = [id |-> c, peopleFetch |-> peopleFetch,
                               eventsFetch |-> eventsFetch]
              /\ cycles' = [cycles EXCEPT ![c] = ran]
              /\ lastGood' = lastGood
    /\ UNCHANGED <<phase, interval, now>>
    /\ UNCHANGED <<graphVars, apiVars, metricVars>>

\* both fetches of invocation c settle and the rest of load() runs; the
\* setters called in one continuation are applied together. The invocation is
\* "ready" when its try block ran to its end and "error" when its catch block ran.
LoadSettles(c) ==
    /\ cycles[c] = "fetching"
    /\ \E peopleFetch \in PeopleFetch, eventsFetch \in EventsFetch :
       \E st \in {load(peopleFetch, eventsFetch, Cells, now)} :
          LET ran == IF st.error = None THEN "ready" ELSE "error"
          IN  /\ people' = st.people
              /\ events' = st.events
              /\ sankeyData' = st.sankeyData
              /\ lastUpdated' = st.lastUpdated
              /\ error' = st.error
              /\ loading' = st.loading
              /\ completed' = [id |-> c, peopleFetch |-> peopleFetch,
                               eventsFetch |-> eventsFetch]
              /\ cycles' = [cycles EXCEPT ![c] = ran]
              /\ lastGood' = IF ran = "ready"
                             THEN Some([people |-> peopleFetch.response.body.items,
                                        events |-> eventsFetch.response.body.items,
                                        sankeyData |-> st.sankeyData])
                             ELSE lastGood
    /\ UNCHANGED <<phase, interval, now>>
    /\ UNCHANGED <<graphVars, apiVars, metricVars>>

\* a cleanup that leaves the interval running
UnmountKeepsInterval ==
    /\ phase = "mounted"
    /\ phase' = "unmounted"
    /\ UNCHANGED <<people, events, sankeyData, loading, error, lastUpdated, cycles,
                   completed, now, lastGood, interval>>
    /\ UNCHANGED <<graphVars, apiVars, metricVars>>

\* return () => clearInterval(interval)
Unmount ==
    /\ phase = "mounted"
    /\ phase' = "unmounted"
    /\ interval' = FALSE
    /\ UNCHANGED <<people, events, sankeyData, loading, error, lastUpdated, cycles,
                   completed, now, lastGood>>
    /\ UNCHANGED <<graphVars, apiVars, metricVars>>

Init ==
    /\ args = << << >> >>
    /\ result = Pending
    /\ locals = None
    /\ prev = None
    /\ DashInit
    /\ ApiIdle
    /\ MetricsIdle

Next ==
    \/ MountEffect
    \/ TimerTick
    \/ \E c \in DOMAIN cycles : LoadSettles(c)
    \/ Unmount

Spec == Init /\ [][Next]_vars


(***************************************************************************)
(* Vocabulary of the properties, stated without the aggregator's own       *)
(* operators: counts are cardinalities of index sets, and a phrase is      *)
(* found by comparing lower-cased characters position by position.         *)
(***************************************************************************)
Returned == result # Pending /\ result.kind = "return"
Threw == result # Pending /\ result.kind = "throw"

\* the people collection of the invocation (the empty one when it is missing)
InPeople == IF Len(args) >= 2 THEN args[2] ELSE << >>

StatusIs(p, s) == "Status" \in DOMAIN p /\ p["Status"] = s
StatusIn(p, S) == "Status" \in DOMAIN p /\ p["Status"] \in S
TextOf(p) == IF "Close Class" \in DOMAIN p THEN p["Close Class"] ELSE << >>

\* text contains phrase (given in lower case), compared case-insensitively
Mentions(p, phrase) ==
    LET t == TextOf(p)
    IN  \E o \in 0..(Len(t) - Len(phrase)) :
            \A k \in 1..Len(phrase) : LowerChar(t[o + k]) = phrase[k]

ClosedAfterCallIdx(ps) ==
    {i \in 1..Len(ps) : StatusIs(ps[i], "Closed") /\ Mentions(ps[i], AFTER_CALL)}
ClosedAfterOnboardIdx(ps) ==
    {i \in 1..Len(ps) : /\ StatusIs(ps[i], "Closed")
                        /\ ~Mentions(ps[i], AFTER_CALL)
                        /\ Mentions(ps[i], AFTER_ONBOARD)}
ClosedBeforeIdx(ps) ==
    {i \in 1..Len(ps) : /\ StatusIs(ps[i], "Closed")
                        /\ ~Mentions(ps[i], AFTER_CALL)
                        /\ ~Mentions(ps[i], AFTER_ONBOARD)}
ClosedIdx(ps) == {i \in 1..Len(ps) : StatusIs(ps[i], "Closed")}

\* the statuses after the entry (New) state, Closed apart
PostScreeningStatuses ==
    {"Lead", "Scheduling Email Sent", "Call Scheduled", "Call Completed",
     "Onboarded", "Active", "Paused"}

RECURSIVE SumWhere(_, _, _, _)
\* the total weight of the first n links from a source in S to a target in T
SumWhere(ls, n, S, T) ==
    IF n = 0 THEN 0
    ELSE SumWhere(ls, n - 1, S, T)
         + (IF ls[n].source \in S /\ ls[n].target \in T THEN ls[n].value ELSE 0)

NodeNames ==
    {"Applications", "Unassessed", "Closed/Rejected", "Qualified", "Waiting on Reply",
     "Call Upcoming", "Call Completed", "Onboarded", "Paused"}

OutLinks == result.value.links
Weight(s, t) == SumWhere(OutLinks, Len(OutLinks), {s}, {t})
Outbound(n) == SumWhere(OutLinks, Len(OutLinks), {n}, NodeNames)
Inbound(n) == SumWhere(OutLinks, Len(OutLinks), NodeNames, {n})
HasLink(s, t) == \E i \in 1..Len(OutLinks) : OutLinks[i].source = s /\ OutLinks[i].target = t

FixedPairs ==
    {<<"Applications", "Unassessed">>, <<"Applications", "Qualified">>,
     <<"Applications", "Closed/Rejected">>, <<"Qualified", "Waiting on Reply">>,
     <<"Qualified", "Call Upcoming">>, <<"Qualified", "Call Completed">>,
     <<"Call Completed", "Onboarded">>, <<"Call Completed", "Paused">>,
     <<"Call Completed", "Closed/Rejected">>}

FixedNodes ==
    {<<"Applications", "active">>, <<"Unassessed", "paused">>, <<"Closed/Rejected", "closed">>,
     <<"Qualified", "active">>, <<"Waiting on Reply", "paused">>, <<"Call Upcoming", "active">>,
     <<"Call Completed", "active">>, <<"Onboarded", "active">>, <<"Paused", "paused">>}

(***************************************************************************)
(* Properties of the aggregator, checked under SpecGraph.                  *)
(***************************************************************************)

\* C1: called with an empty or a missing people collection, whatever the events
\* argument, transformEventsToSankey throws its "no data" error and returns no graph.
C1_EmptyPeopleFails ==
    (result # Pending /\ (Len(args) < 2 \/ Len(args[2]) = 0))
        => /\ result = Throw("No data available from Airtable")
           /\ ~Returned

\* C1 witness: the call was made with events and an empty people collection, and threw.
C1_Witness == Threw /\ Len(args) = 2 /\ args[1] # << >> /\ args[2] = << >>

\* C2: every edge of a returned graph has a strictly positive integer weight.
C2_PositiveWeights ==
    Returned => \A i \in 1..Len(OutLinks) : OutLinks[i].value \in Nat \ {0}

\* C2 witness: a graph was returned with some edges kept and some (zero) dropped.
C2_Witness == Returned /\ Len(OutLinks) > 0 /\ Len(OutLinks) < Cardinality(FixedPairs)

\* C3: for Qualified and Call Completed the outbound weights sum to at most the
\* inbound weight, and an outbound edge is present only if an inbound one is.
C3_Conservation ==
    Returned =>
        \A n \in {"Qualified", "Call Completed"} :
            /\ Outbound(n) <= Inbound(n)
            /\ (\E t \in NodeNames : HasLink(n, t)) => (\E s \in NodeNames : HasLink(s, n))

\* C3 witness: edges leave both nodes, and Qualified keeps some of its inflow.
C3_Witness ==
    /\ Returned
    /\ Outbound("Call Completed") > 0
    /\ Outbound("Qualified") > 0
    /\ Outbound("Qualified") < Inbound("Qualified")

\* C4: every Closed person is counted in exactly one of closedInitially,
\* closedAfterCall and closedAfterOnboarding; a text with both phrases counts
\* as after-call; the three counts are non-negative and sum to the Closed count.
C4_ClosurePartition ==
    Returned =>
        LET l == locals[1]
        IN  /\ l.closedAfterCall = Cardinality(ClosedAfterCallIdx(InPeople))
            /\ l.closedAfterOnboarding = Cardinality(ClosedAfterOnboardIdx(InPeople))
            /\ l.closedInitially = Cardinality(ClosedBeforeIdx(InPeople))
            /\ l.closedInitially >= 0 /\ l.closedAfterCall >= 0 /\ l.closedAfterOnboarding >= 0
            /\ l.closedInitially + l.closedAfterCall + l.closedAfterOnboarding
                   = Cardinality(ClosedIdx(InPeople))

\* C4 witness: a Closed person whose text holds both phrases was counted, once,
\* as after-call, next to a Closed person counted as after-onboarding.
C4_Witness ==
    /\ Returned
    /\ \E i \in 1..Len(InPeople) : InPeople[i] = PC("Closed", TxtBoth)
    /\ locals[1].closedAfterCall = 1
    /\ locals[1].closedAfterOnboarding = 1

\* C5: the edge Applications -> Closed/Rejected weighs the number of Closed
\* people whose text mentions neither phrase (the edge is absent when that is
\* zero); the spec's 100-person scenario gives 10, 45 and weight 45.
C5_ClosedInitiallyEdge ==
    Returned =>
        /\ Weight("Applications", "Closed/Rejected") = Cardinality(ClosedBeforeIdx(InPeople))
        /\ HasLink("Applications", "Closed/Rejected") <=> ClosedBeforeIdx(InPeople) # {}
        /\ InPeople = ScenarioPeople =>
               /\ locals[1].closedAfterCall = 10
               /\ locals[1].closedInitially = 45
               /\ Weight("Applications", "Closed/Rejected") = 45

\* C5 witness: the scenario's collection was aggregated.
C5_Witness == Returned /\ InPeople = ScenarioPeople /\ Len(InPeople) = 100

\* C6: a returned graph has exactly the nine fixed nodes, and its edges are
\* among the nine fixed (source, target) pairs, each pair at most once.
C6_FixedTopology ==
    Returned =>
        LET ns == result.value.nodes
        IN  /\ Len(ns) = 9
            /\ {<<ns[i].name, ns[i].category>> : i \in 1..Len(ns)} = FixedNodes
            /\ \A i \in 1..Len(OutLinks) : <<OutLinks[i].source, OutLinks[i].target>> \in FixedPairs
            /\ \A i, j \in 1..Len(OutLinks) :
                   (OutLinks[i].source = OutLinks[j].source
                    /\ OutLinks[i].target = OutLinks[j].target) => i = j

\* C6 witness: a graph with all nine edges was returned.
C6_Witness == Returned /\ Len(OutLinks) = 9

\* C7: the edge Applications -> Qualified weighs the number of people in a
\* status after the entry state plus the Closed people of the after-call and
\* after-onboarding buckets.
C7_QualifiedEdge ==
    Returned =>
        Weight("Applications", "Qualified")
            = Cardinality({i \in 1..Len(InPeople) : StatusIn(InPeople[i], PostScreeningStatuses)})
              + Cardinality(ClosedAfterCallIdx(InPeople))
              + Cardinality(ClosedAfterOnboardIdx(InPeople))

\* C7 witness: an Active person and a person Closed after onboarding both count.
C7_Witness ==
    /\ Returned
    /\ \E i \in 1..Len(InPeople) : StatusIs(InPeople[i], "Active")
    /\ ClosedAfterOnboardIdx(InPeople) # {}
    /\ Weight("Applications", "Qualified") >= 2

\* how often person x occurs in the collection
Occurrences(ps, x) == Cardinality({i \in 1..Len(ps) : ps[i] = x})
SameMultiset(ps, qs) ==
    /\ Len(ps) = Len(qs)
    /\ \A i \in 1..Len(ps) : Occurrences(ps, ps[i]) = Occurrences(qs, ps[i])

\* C8: two calls with the same people in any order, and with any events
\* collections, return the same nodes and the same weighted edges.
C8_OrderAndEventsIrrelevant ==
    (prev # None /\ result # Pending /\ SameMultiset(prev[1].args[2], args[2]))
        => result = prev[1].result

\* C8 witness: a second call with the people reordered and other events returned.
C8_Witness ==
    /\ prev # None
    /\ Returned
    /\ prev[1].args[2] # args[2]
    /\ prev[1].args[1] # args[1]
    /\ Len(OutLinks) >= 2

HasRecognizedStatus(p) == StatusIn(p, RecognizedStatuses)

\* C9: the weights leaving Applications sum to the number of people with a
\* recognized status, and people with a missing or unrecognized status change
\* no edge: the edges are those of the collection without them.
C9_RootOutflow ==
    Returned =>
        /\ Outbound("Applications")
               = Cardinality({i \in 1..Len(InPeople) : HasRecognizedStatus(InPeople[i])})
        /\ (\A i \in 1..Len(InPeople) : HasRecognizedStatus(InPeople[i]))
               => Outbound("Applications") = Len(InPeople)
        /\ OutLinks = transformLiveDataToSankey(SelectSeq(InPeople, HasRecognizedStatus)).links

\* C9 witness: a person without a status and a person with an unrecognized one
\* were aggregated with recognized people, and the root's outflow is smaller
\* than the population.
C9_Witness ==
    /\ Returned
    /\ \E i \in 1..Len(InPeople) : "Status" \notin DOMAIN InPeople[i]
    /\ \E i \in 1..Len(InPeople) : StatusIs(InPeople[i], "Archived")
    /\ Outbound("Applications") > 0
    /\ Outbound("Applications") < Len(InPeople)

(***************************************************************************)
(* Properties of the dashboard's refresh cycle, checked under Spec.        *)
(***************************************************************************)
FetchOk(f) == f.settled = "fulfilled" /\ f.response.ok

\* C10: when a cycle's funnel-events fetch fails and its people fetch succeeds,
\* the cycle ends in the error state and leaves people, events, sankeyData
\* and lastUpdated as they were.
C10_EventsFailureNoPartialUpdate ==
    [][\A c \in DOMAIN cycles :
          (/\ cycles[c] = "fetching"
           /\ cycles'[c] \in {"ready", "error"}
           /\ FetchOk(completed'.peopleFetch)
           /\ ~FetchOk(completed'.eventsFetch))
          => /\ loading' = FALSE
             /\ error' # None /\ error'[1] # ""
             /\ people' = people
             /\ events' = events
             /\ sankeyData' = sankeyData
             /\ lastUpdated' = lastUpdated]_vars

\* C10 witness: a later cycle whose people fetch brought a collection other than
\* the displayed one and whose events fetch failed has ended; the error shows
\* and the data of the earlier cycle is still held.
C10_Witness ==
    /\ completed.id >= 2
    /\ FetchOk(completed.peopleFetch)
    /\ ~FetchOk(completed.eventsFetch)
    /\ completed.peopleFetch.response.body.items # people
    /\ view = "error"
    /\ people # << >>
    /\ sankeyData # None
    /\ lastUpdated < now

\* the three ways a cycle fails, read off what its two fetches brought
ConfigMessages ==
    {"AIRTABLE_ACCESS_TOKEN is not set", "AIRTABLE_BASE_ID is not set",
     "AIRTABLE_TABLE_NAME is not set"}
ConfigurationError(f) ==
    /\ f.settled = "fulfilled"
    /\ ~f.response.ok
    /\ f.response.body.error \in ConfigMessages
UpstreamError(f) == ~FetchOk(f) /\ ~ConfigurationError(f)
TransformError(done) ==
    /\ FetchOk(done.peopleFetch)
    /\ FetchOk(done.eventsFetch)
    /\ Len(done.peopleFetch.response.body.items) = 0

\* the cycle that completed last failed / succeeded
LastFailed ==
    /\ completed.id # 0
    /\ \/ ConfigurationError(completed.peopleFetch) \/ ConfigurationError(completed.eventsFetch)
       \/ UpstreamError(completed.peopleFetch) \/ UpstreamError(completed.eventsFetch)
       \/ TransformError(completed)
LastSucceeded == completed.id # 0 /\ ~LastFailed

\* C11: after a cycle that failed (configuration error, upstream fetch error or
\* transform error on an empty people collection), the people, events and
\* graph held are those of the most recent successful cycle, if there is one.
C11_FailedCycleKeepsLastGood ==
    (LastFailed /\ lastGood # None)
    => /\ people = lastGood[1].people
       /\ events = lastGood[1].events
       /\ sankeyData = lastGood[1].sankeyData

\* the step in which cycle c completes
Completes(c) == cycles[c] = "fetching" /\ cycles'[c] \in {"ready", "error"}

\* C12: a cycle that succeeds replaces people, events, graph and last-updated
\* time in one step and clears the error; so whenever the dashboard view is
\* shown, the graph held is not null and is the aggregator's graph of the
\* people held.
C12_SuccessReplacesAll ==
    /\ [](view = "dashboard"
          => /\ sankeyData # None
             /\ people # << >>
             /\ sankeyData[1] = transformLiveDataToSankey(people))
    /\ [][\A c \in DOMAIN cycles :
             (/\ Completes(c)
              /\ FetchOk(completed'.peopleFetch)
              /\ FetchOk(completed'.eventsFetch)
              /\ completed'.peopleFetch.response.body.items # << >>)
             => /\ people' = completed'.peopleFetch.response.body.items
                /\ events' = completed'.eventsFetch.response.body.items
                /\ sankeyData' = Some(transformLiveDataToSankey(people'))
                /\ lastUpdated' = now
                /\ error' = None
                /\ loading' = FALSE]_vars

\* C12 witness: the second cycle succeeded after the first had, with other
\* people; the dashboard shows and holds the second cycle's people and graph.
C12_Witness ==
    /\ view = "dashboard"
    /\ completed.id = 2
    /\ cycles[1] = "ready"
    /\ LastSucceeded
    /\ people = completed.peopleFetch.response.body.items
    /\ Len(people) = 4
    /\ lastUpdated = 1
    /\ sankeyData # None

\* C13: whenever the cycle that completed last failed, the error view is shown,
\* with that failure's message, and not the dashboard, data held or not.
C13_FailureShowsError ==
    LastFailed => (view = "error" /\ error # None /\ error[1] # "")

\* C13 witness: the last cycle failed while people and a graph of an earlier
\* success are held; the error view shows.
C13_Witness ==
    /\ LastFailed
    /\ lastGood # None
    /\ sankeyData # None
    /\ people # << >>
    /\ view = "error"

\* the step in which cycle c starts
Starts(c) == cycles[c] = "idle" /\ cycles'[c] = "fetching"

\* C14 as stated: every cycle passes idle -> loading -> ready | error; the
\* loading state is entered when a cycle starts and left only when a cycle ends.
C14_LoadingEachCycle ==
    [][/\ \A c \in DOMAIN cycles : Starts(c) => loading'
       /\ (loading /\ ~loading') => \E c \in DOMAIN cycles : Completes(c)]_vars

\* C14 amended: the loading state is entered once, at construction, and left
\* when the first cycle to complete ends; it is not entered again, and every
\* cycle that completes leaves the view at ready (dashboard) or error.
C14_LoadingUntilFirstOutcome ==
    /\ [](loading <=> completed.id = 0)
    /\ [][~loading => ~loading']_vars
    /\ [][\A c \in DOMAIN cycles :
             Completes(c) => /\ view' \in {"dashboard", "error"}
                             /\ view' = "dashboard" <=> cycles'[c] = "ready"]_vars

\* C14 witness: after the first cycle has ended a later cycle is in flight and
\* the view is not the loading view.
C14_Witness ==
    /\ completed.id = 1
    /\ cycles[2] = "fetching"
    /\ ~loading
    /\ view \in {"dashboard", "error"}

\* C15: a failed cycle does not stop the polling. While the view is mounted a
\* timer tick is possible whatever the earlier outcomes (up to the last tick
\* of the run), each tick starts exactly one new cycle, a cycle that has ended
\* is not run again, and a cycle that succeeds while the error shows clears
\* the error and shows the dashboard with its own people and graph.
C15_FailureKeepsPolling ==
    /\ []((phase = "mounted" /\ now < MaxTicks) => ENABLED TimerTick)
    /\ [][now' # now
          => /\ now' = now + 1
             /\ Starts(now' + 1)
             /\ \A d \in DOMAIN cycles \ {now' + 1} : cycles'[d] = cycles[d]]_vars
    /\ [][\A c \in DOMAIN cycles :
             /\ cycles[c] \in {"ready", "error"} => cycles'[c] = cycles[c]
             /\ Completes(c) => \A d \in DOMAIN cycles \ {c} : cycles'[d] = cycles[d]]_vars
    /\ [][\A c \in DOMAIN cycles :
             (view = "error" /\ Completes(c) /\ LastSucceeded')
             => /\ view' = "dashboard"
                /\ error' = None
                /\ people' = completed'.peopleFetch.response.body.items
                /\ sankeyData' # None]_vars

\* C15 witness: the first cycle failed, a tick started the second, the second
\* succeeded last: the dashboard shows the second cycle's people.
C15_Witness ==
    /\ phase = "mounted"
    /\ cycles[1] = "error"
    /\ cycles[2] = "ready"
    /\ completed.id = 2
    /\ view = "dashboard"
    /\ error = None
    /\ people = completed.peopleFetch.response.body.items

InFlight == {c \in DOMAIN cycles : cycles[c] = "fetching"}
Started == {c \in DOMAIN cycles : cycles[c] # "idle"}

\* C16 as stated: at most one refresh cycle is in flight at any time.
C16_SingleCycleInFlight == Cardinality(InFlight) <= 1

\* C16 amended: the effect and each timer tick start exactly one cycle, whether
\* or not an earlier one is still in flight; cycles can overlap, and at most
\* one plus the number of ticks so far are in flight.
C16_OneCyclePerTrigger ==
    /\ Started = IF phase = "constructed" THEN {} ELSE 1..(now + 1)
    /\ Cardinality(InFlight) <= now + 1

\* C16 witness: a tick fired while the first cycle was outstanding; two cycles
\* are in flight.
C16_Witness ==
    /\ phase = "mounted"
    /\ now = 1
    /\ InFlight = {1, 2}

\* the message a failed cycle reports, read off what its fetches brought
FailureMessage(done) ==
    IF done.peopleFetch.settled = "rejected" THEN done.peopleFetch.message
    ELSE IF done.eventsFetch.settled = "rejected" THEN done.eventsFetch.message
    ELSE IF TransformError(done) THEN "No data available from Airtable"
    ELSE "Failed to fetch data from Airtable"

\* C17: cycles that overlap both run to completion, and the displayed state is
\* the outcome of the one that completed last, whichever started first: an
\* outstanding cycle can always complete, and whenever a cycle completes, with
\* whatever other cycles started or ended before it, data, error and
\* last-updated time become that cycle's outcome (a success shows its own
\* data and time, a failure its own message over the graph and time held).
C17_LastWriterWins ==
    /\ [](\A c \in InFlight : ENABLED LoadSettles(c))
    /\ [][\A c \in DOMAIN cycles :
             Completes(c)
             => /\ completed'.id = c
                /\ LastSucceeded'
                   => /\ people' = completed'.peopleFetch.response.body.items
                      /\ events' = completed'.eventsFetch.response.body.items
                      /\ sankeyData' # None
                      /\ sankeyData'[1] = transformLiveDataToSankey(people')
                      /\ lastUpdated' = now
                      /\ error' = None
                /\ LastFailed'
                   => /\ error' = Some(FailureMessage(completed'))
                      /\ sankeyData' = sankeyData
                      /\ lastUpdated' = lastUpdated]_vars

\* C17 witness: the second cycle was started while the first was outstanding
\* and ended before it; the first, ending last, succeeded and its people,
\* graph and time are displayed.
C17_Witness ==
    /\ cycles[1] = "ready"
    /\ cycles[2] \in {"ready", "error"}
    /\ completed.id = 1
    /\ view = "dashboard"
    /\ people = completed.peopleFetch.response.body.items
    /\ lastUpdated = now

\* C18: teardown cancels the recurring timer: once the view is torn down the
\* interval is cleared, no tick can fire, the view stays torn down and no
\* cycle is started.
C18_NoCycleAfterTeardown ==
    /\ [](phase = "unmounted" => (~interval /\ ~ENABLED TimerTick))
    /\ [][phase = "unmounted"
          => /\ phase' = "unmounted"
             /\ \A c \in DOMAIN cycles : ~Starts(c)]_vars

\* C18 witness: the view was torn down with ticks of the run still to come and
\* a cycle never started.
C18_Witness ==
    /\ phase = "unmounted"
    /\ now < MaxTicks
    /\ cycles[now + 2] = "idle"
    /\ completed.id # 0

Needs(route) ==
    IF route = "funnel-events" THEN EnvNames \ {"AIRTABLE_TABLE_NAME"} ELSE EnvNames

NotSet(n) ==
    CASE n = "AIRTABLE_ACCESS_TOKEN" -> "AIRTABLE_ACCESS_TOKEN is not set"
      [] n = "AIRTABLE_BASE_ID" -> "AIRTABLE_BASE_ID is not set"
      [] n = "AIRTABLE_TABLE_NAME" -> "AIRTABLE_TABLE_NAME is not set"

\* the request's fetch succeeds: its configuration is present and the store
\* delivered every record
FetchSucceeds == Needs(request[1]) \subseteq env /\ upstream.kind = "return"

\* C20: GET /api/people and GET /api/funnel-events answer 200 with the whole
\* fetched record sequence (each record's id and fields, in order) when the
\* fetch succeeds; when it fails they answer 500 with a body {error: message}
\* that holds no records, where message is the failure's message if the
\* failure is an Error and 'Unknown error' if it is not.
C20_RouteAnswers ==
    (response # None /\ request[1] \in {"people", "funnel-events"})
    => LET r == response[1]
       IN  IF FetchSucceeds
           THEN /\ r.ok /\ r.status = 200
                /\ r.body.json = "array"
                /\ Len(r.body.items) = Len(upstream.value)
                /\ \A i \in 1..Len(upstream.value) :
                      /\ DOMAIN r.body.items[i] = DOMAIN upstream.value[i].fields \cup {"id"}
                      /\ r.body.items[i].id = upstream.value[i].id
                      /\ \A k \in DOMAIN upstream.value[i].fields :
                            r.body.items[i][k] = upstream.value[i].fields[k]
           ELSE /\ ~r.ok /\ r.status = 500
                /\ DOMAIN r.body = {"json", "error"}
                /\ r.body.json = "object"
                /\ IF ~(Needs(request[1]) \subseteq env)
                   THEN \E n \in Needs(request[1]) \ env : r.body.error = NotSet(n)
                   ELSE IF upstream.kind = "throw"
                   THEN r.body.error = upstream.message
                   ELSE r.body.error = "Unknown error"

\* C20 witness: the people route, configured, met a store failure that is no
\* Error instance and answered 500 with 'Unknown error'.
C20_Witness ==
    /\ request = Some("people")
    /\ env = EnvNames
    /\ upstream.kind = "throwNonError"
    /\ response # None
    /\ response[1].status = 500
    /\ response[1].body.error = "Unknown error"

(***************************************************************************)
(* The error message of a cycle the store failed, under Spec.              *)
(***************************************************************************)
\* the failures the store can report to the server in this model, and the
\* fetches they end in
StoreFailures == {o \in PeopleAll \cup EventsAll : o.kind # "return"}
CausedBy(o, f) == f.settled = "fulfilled" /\ f.response = Response(o)
StoreFailuresOf(done) ==
    {o \in StoreFailures : CausedBy(o, done.peopleFetch) \/ CausedBy(o, done.eventsFetch)}

\* C21: when the cycle that completed last failed because the store reported
\* an error, the message the dashboard holds is the message of that error,
\* verbatim.
C21_StoreErrorVerbatim ==
    (completed.id # 0 /\ StoreFailuresOf(completed) # {})
    => /\ error # None
       /\ \E o \in StoreFailuresOf(completed) : error[1] = o.message

(***************************************************************************)
(* Properties of the server's configuration and of PATCH, under SpecApi.   *)
(***************************************************************************)
\* the request has been answered with a configuration error naming a variable
\* that is absent
AnsweredConfigError ==
    /\ response # None
    /\ ~response[1].ok
    /\ response[1].status = 500
    /\ \E n \in EnvNames \ env : response[1].body.error = NotSet(n)

\* every call the request made to the store succeeded
StoreHealthy ==
    /\ upstream.kind = "return"
    /\ \A c \in 1..Len(store.calls) : store.calls[c].state = "ok"

\* C22 as stated: on each request path, people, funnel events and field
\* update, a request made while any of the three variables is absent fails
\* with a configuration error and never contacts the store; a request made
\* with all three present, after one that failed so too, succeeds.
C22_ConfigEveryPath ==
    /\ env # EnvNames => store.calls = << >>
    /\ (response # None /\ env # EnvNames) => AnsweredConfigError
    /\ (response # None /\ env = EnvNames /\ StoreHealthy) => response[1].status = 200

\* the request calls the Record Fetcher: a GET always, a PATCH once per field
CallsFetcher == request # None /\ (request[1] = "patch" => Len(body) > 0)

\* C22 amended: a request that calls the Record Fetcher while a variable its
\* path reads is absent (credential or base identifier on every path, the
\* primary-table name on the people and field-update paths only) fails with a
\* configuration error naming an absent variable and never contacts the
\* store; a PATCH without fields calls nothing and is answered 200. A request
\* made with the variables present, after one that failed so too, succeeds
\* when the store does.
C22_ConfigPerPath ==
    /\ (request # None /\ ~(Needs(request[1]) \subseteq env)) => store.calls = << >>
    /\ (response # None /\ CallsFetcher /\ ~(Needs(request[1]) \subseteq env))
       => AnsweredConfigError
    /\ (response # None /\ request[1] = "patch" /\ Len(body) = 0)
       => response[1].status = 200
    /\ (response # None /\ Needs(request[1]) \subseteq env /\ StoreHealthy)
       => response[1].status = 200

\* C22 witness: a people request failed for a missing variable; the next
\* people request, made with the environment set, has been answered 200.
C22_Witness ==
    /\ served # << >>
    /\ served[1].route = "people"
    /\ served[1].status = 500
    /\ served[1].error = "AIRTABLE_BASE_ID is not set"
    /\ request = Some("people")
    /\ env = EnvNames
    /\ response # None
    /\ response[1].status = 200
    /\ Len(store.calls) = 1

\* the request is a PATCH, being handled or answered
IsPatch == request = Some("patch")

\* the updates the request has sent to the store so far, as name/value pairs
UpdatesSent == [c \in 1..Len(store.calls) |-> <<store.calls[c].field, store.calls[c].value>>]

\* the updates are sent one at a time: every call is an update of one field,
\* and every call but the last sent has completed, successfully
OneAtATime ==
    /\ \A c \in 1..Len(store.calls) : store.calls[c].op = "update"
    /\ \A c \in 1..(Len(store.calls) - 1) : store.calls[c].state = "ok"

\* the updates sent are the first ones of the sequence order
SentFollows(order) ==
    /\ Len(UpdatesSent) <= Len(order)
    /\ \A c \in 1..Len(UpdatesSent) : UpdatesSent[c] = order[c]

\* when every update succeeded the answer is 200 with the record the last
\* update returned, which holds every field of the body
AnswersLastPerson ==
    (response # None /\ response[1].status = 200 /\ Len(body) > 0)
    => /\ Len(store.calls) = Len(body)
       /\ \A c \in 1..Len(store.calls) : store.calls[c].state = "ok"
       /\ response[1].body.person = Some(personOf(store.fields))
       /\ \A i \in 1..Len(body) : response[1].body.person[1][body[i][1]] = body[i][2]

\* the body's pairs, names that are array indices first, by ascending index,
\* then the other names as the body has them
IndexFirst(b) ==
    CHOOSE s \in [1..Len(b) -> {b[i] : i \in 1..Len(b)}] :
        /\ \A i \in 1..Len(b) : \E r \in 1..Len(b) : s[r] = b[i]
        /\ \A p, q \in 1..Len(b) :
              p < q =>
                 LET x == ArrayIndex(s[p][1])
                     y == ArrayIndex(s[q][1])
                 IN  /\ y >= 0 => (x >= 0 /\ x < y)
                     /\ (x < 0 /\ y < 0)
                        => \E i, j \in 1..Len(b) : i < j /\ b[i] = s[p] /\ b[j] = s[q]

\* C23 as stated: PATCH sends one single-field update per field of the body,
\* in body order, each only after the one before has completed, and answers
\* with the Person the last update returned when all succeeded.
C23_UpdatesInBodyOrder ==
    IsPatch => (OneAtATime /\ SentFollows(body) /\ AnswersLastPerson)

\* C23 amended: the same, the order being that in which the parsed body's
\* properties are enumerated: names that are array indices first, in
\* ascending numeric order, then the other names in body order (body order
\* when no name is an array index).
C23_UpdatesInEnumerationOrder ==
    IsPatch => (OneAtATime /\ SentFollows(IndexFirst(body)) /\ AnswersLastPerson)

\* C23 witness: a body that names "Status" before "2" was applied, "2" first,
\* and the answer is the record with both fields.
C23_Witness ==
    /\ IsPatch
    /\ Len(body) = 2
    /\ body[1][1] = "Status"
    /\ body[2][1] = "2"
    /\ response # None
    /\ response[1].status = 200
    /\ UpdatesSent = <<body[2], body[1]>>
    /\ store.fields["Status"] = body[1][2]

\* the update that failed, if one did: its place among the updates sent
FailedAt == {k \in 1..Len(store.calls) : store.calls[k].state = "failed"}

\* C29: when the k-th update of a PATCH request fails, the k-1 updates before
\* it stay applied in the store, no update is sent after it, and the answer
\* is 500 with {error: message} (the failure's message, or 'Unknown error'
\* when the failure is no Error) and no Person.
C29_FailedUpdateNoRollback ==
    (IsPatch /\ FailedAt # {})
    => \A k \in FailedAt :
          /\ k = Len(store.calls)
          /\ \A j \in 1..(k - 1) :
                /\ store.calls[j].state = "ok"
                /\ store.calls[j].field \in DOMAIN store.fields
                /\ store.fields[store.calls[j].field] = store.calls[j].value
          /\ loop.pc \in {"thrown", "done"}
          /\ response # None
             => /\ response[1].status = 500
                /\ ~response[1].ok
                /\ DOMAIN response[1].body = {"json", "error"}
                /\ response[1].body.error =
                      IF loop.thrown[1].kind = "throw" THEN loop.thrown[1].message
                      ELSE "Unknown error"

\* C29 witness: of three fields the first was written, the second failed, the
\* third was never sent; the answer is 500 and the first field is in the store.
C29_Witness ==
    /\ IsPatch
    /\ Len(body) = 3
    /\ FailedAt = {2}
    /\ Len(store.calls) = 2
    /\ store.fields[store.calls[1].field] = store.calls[1].value
    /\ response # None
    /\ response[1].status = 500

(***************************************************************************)
(* The figures of the dashboard, app/page.tsx lines 19-41 and 108-254, and *)
(* the two rates the chart annotates, components/SankeyChart.tsx lines     *)
(* 200-233.  A timestamp is the number of milliseconds since 1970-01-01    *)
(* 00:00 that its text denotes (new Date(text).getTime()), in the time     *)
(* zone of the browser; a record has the property only when the text is    *)
(* there.                                                                  *)
(***************************************************************************)
\* the most people in a collection the figures are computed from
MaxCohort == 3

DayMs == 1000 * 60 * 60 * 24

\* the time value of hour h, minute m, second s of day d (day 0 is Thursday
\* 1 January 1970)
At(d, h, m, s) == d * DayMs + ((h * 60 + m) * 60 + s) * 1000

\* Date.prototype.getDay: 0 is Sunday
getDay(t) == ((t \div DayMs) + 4) % 7

\* `${n}${unit} ago`
Ago(n, unit) == [n |-> n, unit |-> unit, text |-> "ago"]
\* the placeholder, an em dash (U+2014)
Placeholder == [n |-> 0, unit |-> "", text |-> "em dash"]

\* a timeAgo whose thresholds belong to the finer unit
timeAgoInclusive(date, t) ==
    LET seconds == (t - date) \div 1000
        minutes == seconds \div 60
        hours == minutes \div 60
        days == hours \div 24
        weeks == days \div 7
    IN  IF seconds <= 60 THEN Ago(seconds, "s")
        ELSE IF minutes <= 60 THEN Ago(minutes, "m")
        ELSE IF hours <= 24 THEN Ago(hours, "h")
        ELSE IF days <= 7 THEN Ago(days, "d")
        ELSE Ago(weeks, "w")

\* timeAgo(dateString) at the time t
timeAgo(date, t) ==
    LET seconds == (t - date) \div 1000
        minutes == seconds \div 60
        hours == minutes \div 60
        days == hours \div 24
        weeks == days \div 7
    IN  IF seconds < 60 THEN Ago(seconds, "s")
        ELSE IF minutes < 60 THEN Ago(minutes, "m")
        ELSE IF hours < 24 THEN Ago(hours, "h")
        ELSE IF days < 7 THEN Ago(days, "d")
        ELSE Ago(weeks, "w")

\* getWeekStart() at the time t: setDate moves the date by whole days and
\* keeps the time of day
getWeekStart(t) ==
    LET day == getDay(t)
        diff == (IF day = 0 THEN -6 ELSE 1) - day
    IN  t + diff * DayMs

\* byStatus[s] || 0
byStatus(ps, s) == Cardinality({i \in 1..Len(ps) : has(ps[i], "Status") /\ ps[i].Status = s})

\* Math.round((n / d) * 100) for d > 0: the nearest integer, a half upwards
MathRound100(n, d) == (200 * n + d) \div (2 * d)

\* the outcome of Math.round((n / d) * 100): not a finite number when d is 0
Divide(n, d) ==
    [n |-> n, d |-> d, divided |-> TRUE, finite |-> d # 0,
     value |-> IF d # 0 THEN MathRound100(n, d) ELSE 0]

\* a percentage that divides whatever the test says
GuardedAlwaysDivides(test, n, d) == Divide(n, d)

\* test ? Math.round((n / d) * 100) : 0
Guarded(test, n, d) ==
    IF test THEN Divide(n, d)
    ELSE [n |-> n, d |-> d, divided |-> FALSE, finite |-> TRUE, value |-> 0]

Orders(n) == {f \in [1..n -> 1..n] : \A i, j \in 1..n : i # j => f[i] # f[j]}

\* Array.prototype.sort with the comparator (a, b) => key(b) - key(a), where
\* keys[i] is the key of xs[i]: stable
sortDescending(xs, keys) ==
    LET n == Len(xs)
        order == CHOOSE f \in Orders(n) :
                     \A i \in 1..(n - 1) :
                         \/ keys[f[i]] > keys[f[i + 1]]
                         \/ keys[f[i]] = keys[f[i + 1]] /\ f[i] < f[i + 1]
    IN  [i \in 1..n |-> xs[order[i]]]

\* the orders [...people].sort(...) can leave the people in.  The comparator
\* answers 0 whenever either person has no Created: it is a consistent
\* comparator, and the sort the stable one, only when every person has a
\* Created or all the Created there are are equal; otherwise the order is
\* implementation-defined
sortedPeople(ps) ==
    IF \A i \in 1..Len(ps) : has(ps[i], "Created")
    THEN {sortDescending(ps, [i \in 1..Len(ps) |-> ps[i].Created])}
    ELSE IF \A i, j \in 1..Len(ps) :
                has(ps[i], "Created") /\ has(ps[j], "Created")
                    => ps[i].Created = ps[j].Created
    THEN {ps}
    ELSE {[i \in 1..Len(ps) |-> ps[f[i]]] : f \in Orders(Len(ps))}

\* 'Unknown'
Unknown == <<"U", "n", "k", "n", "o", "w", "n">>

\* p['Close Class'] || 'Unknown'
closeClassOrUnknown(p) == IF truthy(p, "Close Class") THEN p["Close Class"] ELSE Unknown

\* a tally that adds an entry for every person
tallyAddAlwaysAppends(acc, key) == Append(acc, [closeClass |-> key, count |-> 1])

\* acc[closeClass] = (acc[closeClass] || 0) + 1, the entries in insertion order
tallyAdd(acc, key) ==
    IF \E i \in 1..Len(acc) : acc[i].closeClass = key
    THEN [i \in 1..Len(acc) |->
             IF acc[i].closeClass = key THEN [acc[i] EXCEPT !.count = @ + 1] ELSE acc[i]]
    ELSE Append(acc, [closeClass |-> key, count |-> 1])

RECURSIVE byCloseClass(_, _)
\* closedPeople.reduce(...) over the first n closed people
byCloseClass(cs, n) ==
    IF n = 0 THEN << >> ELSE tallyAdd(byCloseClass(cs, n - 1), closeClassOrUnknown(cs[n]))

isClosedPerson(p) == has(p, "Status") /\ p.Status = "Closed"

\* the rows of the Closure Reasons section
closureRows(ps) ==
    LET closedPeople == SelectSeq(ps, isClosedPerson)
        closed == byStatus(ps, "Closed")
        tally == byCloseClass(closedPeople, Len(closedPeople))
        rows == sortDescending(tally, [i \in 1..Len(tally) |-> tally[i].count])
    IN  [i \in 1..Len(rows) |->
            [closeClass |-> rows[i].closeClass, count |-> rows[i].count,
             share |-> Guarded(closed # 0, rows[i].count, closed)]]

WeeklyQualifiedStatuses ==
    {"Lead", "Scheduling Email Sent", "Call Scheduled", "Call Completed", "Onboarded"}

\* what one render of the dashboard view computes from the cells, the time t
\* and the order the sort left the people in
figures(ps, es, t, sorted) ==
    LET total == Len(ps)
        leads == byStatus(ps, "Lead")
        onboarded == byStatus(ps, "Onboarded")
        closed == byStatus(ps, "Closed")
        weekStart == getWeekStart(t)
        thisWeek == {i \in 1..Len(ps) :
                        has(ps[i], "Created") /\ ps[i].Created >= weekStart}
        friday == weekStart + 4 * DayMs
        remaining == 0 - ((t - friday) \div DayMs)
        reached == SelectSeq(es, LAMBDA e : /\ has(e, "To Status")
                                            /\ e["To Status"] = "Onboarded"
                                            /\ has(e, "Changed At"))
        onboardedEvents ==
            sortDescending(reached, [i \in 1..Len(reached) |-> reached[i]["Changed At"]])
    IN  [total |-> total,
         active |-> byStatus(ps, "Active"),
         leads |-> leads,
         onboarded |-> onboarded,
         closed |-> closed,
         weeklyApplications |-> Cardinality(thisWeek),
         weeklyQualified |->
             Cardinality({i \in thisWeek : /\ has(ps[i], "Status")
                                           /\ ps[i].Status \in WeeklyQualifiedStatuses}),
         thisWeekOnboarded |->
             Cardinality({i \in 1..Len(es) : /\ has(es[i], "To Status")
                                             /\ es[i]["To Status"] = "Onboarded"
                                             /\ has(es[i], "Changed At")
                                             /\ es[i]["Changed At"] >= weekStart}),
         daysRemaining |-> IF remaining > 0 THEN remaining ELSE 0,
         lastApplication |->
             IF Len(sorted) > 0 /\ has(sorted[1], "Created")
             THEN timeAgo(sorted[1].Created, t) ELSE Placeholder,
         lastOnboarded |->
             IF Len(onboardedEvents) > 0
             THEN timeAgo(onboardedEvents[1]["Changed At"], t) ELSE Placeholder,
         rejected |-> Guarded(total > 0, closed, total),
         dontOnboard |-> Guarded(leads > 0, leads - onboarded, leads),
         dontOnboardCount |-> leads - onboarded,
         unassessed |-> byStatus(ps, "New"),
         closureShown |-> closed > 0,
         closure |-> IF closed > 0 THEN closureRows(ps) ELSE << >>,
         chart |-> None]

\* node.value as d3-sankey computes it: the larger of the weight that leaves
\* the node and the weight that enters it
nodeValue(data, name) ==
    LET out == SumWhere(data.links, Len(data.links), {name}, NodeNames)
        in == SumWhere(data.links, Len(data.links), NodeNames, {name})
    IN  IF out > in THEN out ELSE in

\* the effect of SankeyChart: nothing is drawn without nodes or links;
\* otherwise the qualification rate is annotated, and the completion rate
\* when the Onboarded node carries weight
annotations(data) ==
    IF Len(data.nodes) = 0 \/ Len(data.links) = 0
    THEN [drawn |-> FALSE, qualification |-> None, completion |-> None]
    ELSE [drawn |-> TRUE,
          qualification |->
              Some(Divide(nodeValue(data, "Qualified"), nodeValue(data, "Applications"))),
          completion |->
              IF nodeValue(data, "Onboarded") > 0
              THEN Some(Divide(nodeValue(data, "Onboarded"), nodeValue(data, "Qualified")))
              ELSE None]

(***************************************************************************)
(* The renders of the dashboard view.  The component reaches the figures   *)
(* only past the loading and error returns (lines 88-106): the cells hold  *)
(* what a successful cycle wrote, a non-empty people collection, the       *)
(* events and the graph of both.  Render is one evaluation of the          *)
(* component body at the time clock, DrawChart the effect of the chart it  *)
(* mounts.                                                                 *)
(***************************************************************************)
\* the days of the calendar the inputs are taken from: Monday 12 January
\* 1970 and the week around it
ThisMonday == 7 + 4
LastThursday == At(ThisMonday - 4, 10, 0, 0)
LastSunday == At(ThisMonday - 1, 23, 0, 0)
MondayEarly == At(ThisMonday, 8, 59, 15)
MondayMorning == At(ThisMonday, 9, 0, 0)

Clocks ==
    {MondayMorning, At(ThisMonday, 12, 0, 0), At(ThisMonday + 2, 15, 0, 0),
     At(ThisMonday + 6, 12, 0, 0)}

\* a record with a creation timestamp
CreatedAt(p, t) == p @@ "Created" :> t

CohortKinds ==
    {CreatedAt(P("Lead"), MondayMorning),
     CreatedAt(P("Onboarded"), LastThursday),
     CreatedAt(PC("Closed", TxtAfterCall), MondayEarly),
     PC("Closed", TxtOther),
     CreatedAt(P("Closed"), LastThursday),
     CreatedAt(P("New"), LastSunday),
     P("Archived")}

Cohorts == BoundedSeq(CohortKinds, MaxCohort) \ {<< >>}

CohortEvents ==
    {<< >>,
     <<Ev("Closed", MondayMorning), Ev("Onboarded", LastThursday),
       Ev("Onboarded", MondayEarly), [f \in {"To Status"} |-> "Onboarded"]>>}

\* the ages, in milliseconds, of the transition a recency is formatted from:
\* both sides of every threshold
Ages ==
    {0, 999, 45 * 1000, 59 * 1000 + 999, 60 * 1000, 90 * 1000,
     At(0, 0, 59, 59), At(0, 1, 0, 0), At(0, 23, 59, 59), At(1, 0, 0, 0),
     At(1, 1, 0, 0), At(6, 23, 59, 59), At(7, 0, 0, 0), At(10, 0, 0, 0),
     At(14, 0, 0, 0)}

RecencyClock == At(ThisMonday + 2, 15, 0, 0)

RecencyEvents ==
    {<<Ev("Onboarded", RecencyClock - a)>> : a \in Ages} \cup
    {<<Ev("Onboarded", LastThursday), Ev("Onboarded", MondayMorning)>>,
     <<Ev("Onboarded", MondayMorning), Ev("Onboarded", LastThursday)>>,
     <<Ev("Closed", MondayMorning), Ev("Onboarded", LastSunday)>>,
     <<[f \in {"To Status"} |-> "Onboarded"]>>}

\* the cells and the clock of a render
MetricInputs ==
    {<<ps, es, t>> : ps \in Cohorts, es \in CohortEvents, t \in Clocks} \cup
    {<<ps, es, RecencyClock>> :
        ps \in {<<CreatedAt(P("Lead"), RecencyClock - a)>> : a \in {0, 90 * 1000}},
        es \in RecencyEvents} \cup
    {<<ps, << >>, RecencyClock>> : ps \in PeopleInputs \ {<< >>}}

InitMetrics ==
    /\ \E in \in MetricInputs :
       \E g \in {transformEventsToSankey(<<in[2], in[1]>>)} :
          /\ g.kind # "throw"
          /\ people = in[1]
          /\ events = in[2]
          /\ clock = in[3]
          /\ sankeyData = Some(g.value)
          /\ lastGood = Some([people |-> in[1], events |-> in[2],
                              sankeyData |-> Some(g.value)])
    /\ loading = FALSE
    /\ error = None
    /\ lastUpdated = 0
    /\ phase = "mounted"
    /\ interval = TRUE
    /\ cycles = [c \in 1..(MaxTicks + 1) |-> IF c = 1 THEN "ready" ELSE "idle"]
    /\ completed = [id |-> 1]
    /\ now = 0
    /\ rendered = None
    /\ args = << << >> >>
    /\ result = Pending
    /\ locals = None
    /\ prev = None
    /\ ApiIdle

\* the component body, lines 108-254
Render ==
    /\ view = "dashboard"
    /\ rendered = None
    /\ \E sorted \in sortedPeople(people) :
          rendered' = Some(figures(people, events, clock, sorted))
    /\ UNCHANGED clock
    /\ UNCHANGED <<graphVars, dashVars, apiVars>>

\* {sankeyData && <SankeyChart data={sankeyData} />} and the effect of the chart
DrawChart ==
    /\ rendered # None
    /\ rendered[1].chart = None
    /\ sankeyData # None
    /\ rendered' = Some([rendered[1] EXCEPT !.chart = Some(annotations(sankeyData[1]))])
    /\ UNCHANGED clock
    /\ UNCHANGED <<graphVars, dashVars, apiVars>>

NextMetrics == Render \/ DrawChart

SpecMetrics == InitMetrics /\ [][NextMetrics]_vars

(***************************************************************************)
(* The figures on display.                                                 *)
(***************************************************************************)
Shown == rendered # None
ChartShown == Shown /\ rendered[1].chart # None

\* every percentage of the render: the two attrition shares, the share of
\* each closure reason and the rates the chart has annotated
Percentages ==
    {rendered[1].rejected, rendered[1].dontOnboard} \cup
    {rendered[1].closure[i].share : i \in 1..Len(rendered[1].closure)} \cup
    (IF rendered[1].chart = None THEN {}
     ELSE {q[1] : q \in {rendered[1].chart[1].qualification,
                         rendered[1].chart[1].completion} \ {None}})

\* v is n / d * 100 rounded to the nearest integer, a half upwards (d > 0)
Rounds(v, n, d) == 2 * d * v - d <= 200 * n /\ 200 * n < 2 * d * v + d

\* C24: every percentage on display is round(numerator / denominator * 100)
\* when its denominator is not zero, and is 0, no division made, when its
\* denominator is zero
C24_PercentagesGuarded ==
    Shown =>
        \A r \in Percentages :
            IF r.d # 0
            THEN r.divided /\ r.finite /\ Rounds(r.value, r.n, r.d)
            ELSE r.value = 0 /\ ~r.divided

\* a render with a zero denominator (no Lead), a closure reason that is a
\* third of the closed, and the chart's qualification rate annotated
C24_Witness ==
    /\ ChartShown
    /\ rendered[1].dontOnboard.d = 0
    /\ rendered[1].rejected.d > 0
    /\ \E i \in 1..Len(rendered[1].closure) : rendered[1].closure[i].share.value = 33
    /\ rendered[1].chart[1].qualification # None

\* the age in milliseconds of the only event when it is a timestamped
\* transition to Onboarded, and of the only person when they have a Created
OnlyEventAge == clock - events[1]["Changed At"]
OnlyEvent ==
    /\ Len(events) = 1
    /\ events[1]["To Status"] = "Onboarded"
    /\ has(events[1], "Changed At")
    /\ OnlyEventAge >= 0
OnlyPersonAge == clock - people[1].Created
OnlyPerson == Len(people) = 1 /\ has(people[1], "Created") /\ OnlyPersonAge >= 0

\* the text for an age of s whole seconds: the coarsest unit that applies,
\* the number of whole units
Coarsest(s) ==
    IF s < 60 THEN Ago(s, "s")
    ELSE IF s < 60 * 60 THEN Ago(s \div 60, "m")
    ELSE IF s < 24 * 60 * 60 THEN Ago(s \div (60 * 60), "h")
    ELSE IF s < 7 * 24 * 60 * 60 THEN Ago(s \div (24 * 60 * 60), "d")
    ELSE Ago(s \div (7 * 24 * 60 * 60), "w")

\* C25: for an age of s >= 0 whole seconds timeAgo gives the coarsest unit
\* that applies with floor division, 's' under 60 seconds, 'm' under 60
\* minutes, 'h' under 24 hours, 'd' under 7 days, 'w' from there on; 45
\* seconds is '45s ago', 90 seconds '1m ago', 25 hours '1d ago', 10 days
\* '1w ago'
C25_TimeAgoCoarsestUnit ==
    Shown =>
        /\ OnlyEvent =>
              /\ rendered[1].lastOnboarded = Coarsest(OnlyEventAge \div 1000)
              /\ OnlyEventAge = 45 * 1000 => rendered[1].lastOnboarded = Ago(45, "s")
              /\ OnlyEventAge = 90 * 1000 => rendered[1].lastOnboarded = Ago(1, "m")
              /\ OnlyEventAge = At(1, 1, 0, 0) => rendered[1].lastOnboarded = Ago(1, "d")
              /\ OnlyEventAge = At(10, 0, 0, 0) => rendered[1].lastOnboarded = Ago(1, "w")
        /\ OnlyPerson => rendered[1].lastApplication = Coarsest(OnlyPersonAge \div 1000)

\* the render of a transition exactly 60 minutes old, and of an application
\* 90 seconds old
C25_Witness ==
    /\ Shown /\ OnlyEvent /\ OnlyPerson
    /\ OnlyEventAge = At(0, 1, 0, 0)
    /\ rendered[1].lastOnboarded = Ago(1, "h")
    /\ rendered[1].lastApplication = Ago(1, "m")

\* 00:00 of the most recent Monday at the time t (the day of t when that is
\* a Monday)
StartOfMonday(t) == ((t \div DayMs) - ((getDay(t) + 6) % 7)) * DayMs

\* C26: the weekly application count is the number of people created at or
\* after the start of the most recent Monday, whatever the day of the week
\* and the time of day; people without a creation timestamp are not counted
C26_WeeklyFromStartOfMonday ==
    Shown =>
        rendered[1].weeklyApplications =
            Cardinality({i \in 1..Len(people) :
                            /\ has(people[i], "Created")
                            /\ people[i].Created >= StartOfMonday(clock)})

\* the people with status Closed, and the text each is counted under
ClosedNow == {i \in 1..Len(people) : has(people[i], "Status") /\ people[i].Status = "Closed"}
ReasonOf(p) ==
    IF has(p, "Close Class") /\ p["Close Class"] # << >> THEN p["Close Class"] ELSE Unknown

RECURSIVE SumCounts(_, _)
\* the sum of the counts of the first n rows
SumCounts(rows, n) == IF n = 0 THEN 0 ELSE SumCounts(rows, n - 1) + rows[n].count

\* C27: the closure breakdown has one entry for each distinct closure text
\* among the people with status Closed, a missing text counted under
\* 'Unknown'; the counts add up to the number of Closed people; the entries
\* are in non-increasing order of count; the percentage of an entry is its
\* count over the number of Closed people
C27_ClosureBreakdown ==
    Shown =>
        LET rows == rendered[1].closure
        IN  /\ {rows[i].closeClass : i \in 1..Len(rows)}
                   = {ReasonOf(people[i]) : i \in ClosedNow}
            /\ \A i, j \in 1..Len(rows) : i # j => rows[i].closeClass # rows[j].closeClass
            /\ \A i \in 1..Len(rows) :
                  /\ rows[i].count
                         = Cardinality({k \in ClosedNow :
                                           ReasonOf(people[k]) = rows[i].closeClass})
                  /\ rows[i].share.n = rows[i].count
                  /\ rows[i].share.d = Cardinality(ClosedNow)
                  /\ Rounds(rows[i].share.value, rows[i].count, Cardinality(ClosedNow))
            /\ SumCounts(rows, Len(rows)) = Cardinality(ClosedNow)
            /\ \A i \in 1..(Len(rows) - 1) : rows[i].count >= rows[i + 1].count

\* three Closed people, the first of them without a text and the other two
\* with the same text: the text comes first with 67 %, 'Unknown' second
C27_Witness ==
    /\ Shown
    /\ Cardinality(ClosedNow) = 3
    /\ ReasonOf(people[1]) = Unknown
    /\ Len(rendered[1].closure) = 2
    /\ rendered[1].closure[1].count = 2
    /\ rendered[1].closure[1].share.value = 67
    /\ rendered[1].closure[2].closeClass = Unknown

\* the people with a creation timestamp, the timestamped transitions to
\* Onboarded, and the latest of a non-empty set of times
Dated == {i \in 1..Len(people) : has(people[i], "Created")}
Onboardings ==
    {i \in 1..Len(events) : /\ has(events[i], "To Status")
                            /\ events[i]["To Status"] = "Onboarded"
                            /\ has(events[i], "Changed At")}
Latest(T) == CHOOSE t \in T : \A u \in T : u <= t

\* C28: the 'last application' recency is that of the latest creation
\* timestamp among the people that have one, the 'last onboarded' recency
\* that of the latest transition to Onboarded, whatever the order of the
\* collections; the placeholder stands only where there is no such person
\* or event
C28_RecencyOfLatest ==
    Shown =>
        /\ rendered[1].lastApplication =
               IF Dated = {} THEN Placeholder
               ELSE timeAgo(Latest({people[i].Created : i \in Dated}), clock)
        /\ rendered[1].lastOnboarded =
               IF Onboardings = {} THEN Placeholder
               ELSE timeAgo(Latest({events[i]["Changed At"] : i \in Onboardings}), clock)

\* C30: the attrition figures are not negative and every percentage on
\* display is between 0 and 100; the count of qualified who do not onboard
\* (Lead minus Onboarded) and its percentage are never negative
C30_AttritionInRange ==
    Shown =>
        /\ rendered[1].dontOnboardCount >= 0
        /\ rendered[1].dontOnboard.value >= 0
        /\ rendered[1].closed >= 0
        /\ rendered[1].unassessed >= 0
        /\ \A r \in Percentages : 0 <= r.value /\ r.value <= 100

====
